---- MODULE Spec2Model ----
(***************************************************************************)
(* forms-watcher (src/poll_forms.py): the `poll` command.                  *)
(*                                                                         *)
(* The model follows _poll and the functions it calls: _load_forms,        *)
(* _load_tokens, _ensure_fresh, _refresh_tokens, _save_tokens,             *)
(* _check_form and _notify.  Time is in whole seconds.  The token file is  *)
(* a sequence of chunks as json.dump emits them, so that a half-written    *)
(* file is a state of the model.                                           *)
(***************************************************************************)
EXTENDS Integers, Sequences, FiniteSets, TLC

\* ------------------------------------------------------------------ bounds
MaxForms == 3      \* longest registry
MaxTicks == 3      \* ticks of the poll loop that the model follows
MaxAuthPolls == 3  \* polls of the device flow that the model follows

\* ------------------------------------------------------- program constants
SAFETY_MARGIN == 300        \* _ensure_fresh: obtained + expires_in - 300
DEFAULT_INTERVAL == 5       \* --interval default
DEVICE_INTERVAL == 5        \* _device_code_auth: result.get("interval", 5)
PROBE_TIMEOUT == 10         \* _poll: httpx.Client(timeout=10)
TENANT_COMMON == 0          \* the tenant "common", as a number

\* ------------------------------------------------------------ input sets
\* URLs the operator may have added, and the form each resolves to:
\* u1 and u2 are two URLs of the same form.
Urls == {"u1", "u2", "u3", "u4"}
FormIds == {"A", "B", "C"}
Durations == {0}                      \* seconds an HTTP call takes
InitialExpiresIn == {295, 305}
IssuedExpiresIn == {305, 3600}

ResolveUrl(url) ==
    CASE url = "u1" -> "A"
      [] url = "u2" -> "A"
      [] url = "u3" -> "B"
      [] OTHER      -> "C"

\* _resolve_form: the descriptor of a URL
_resolve_form(url) == [url |-> url, short |-> url, form_id |-> ResolveUrl(url)]

RECURSIVE AddUrls(_, _)
\* main, command "add": a URL already in the registry is skipped, any other
\* is resolved and appended.
AddUrls(existing, urls) ==
    IF urls = <<>> THEN existing
    ELSE LET url == Head(urls)
             existing_urls == {existing[j].url : j \in 1..Len(existing)}
         IN  IF url \in existing_urls
             THEN AddUrls(existing, Tail(urls))
             ELSE AddUrls(Append(existing, _resolve_form(url)), Tail(urls))

UrlSeqs == UNION {[1..n -> Urls] : n \in 0..MaxForms}

\* the registries that "add" can have written
Registries == {AddUrls(<<>>, us) : us \in UrlSeqs}

\* ------------------------------------------------------- token documents
KeyOrder == <<"expires_in", "access_token", "refresh_token", "_obtained_at", "_tenant">>
OpenBrace == <<"{", 0>>
CloseBrace == <<"}", 0>>

Get(d, k, default) == IF k \in DOMAIN d THEN d[k] ELSE default

TokenDict(e, a, r, t, ten) ==
    [k \in {"expires_in", "access_token", "refresh_token", "_obtained_at", "_tenant"} |->
        CASE k = "expires_in"    -> e
          [] k = "access_token"  -> a
          [] k = "refresh_token" -> r
          [] k = "_obtained_at"  -> t
          [] OTHER               -> ten]

NoTokens == [k \in {} |-> 0]

\* no client.get made yet
NoResponse == [kind |-> "none", status |-> 0, code |-> "none"]

\* json.dump: the chunks written for a dict
Serialize(d) ==
    LET ks == SelectSeq(KeyOrder, LAMBDA k : k \in DOMAIN d)
    IN  <<OpenBrace>> \o [j \in 1..Len(ks) |-> <<ks[j], d[ks[j]]>>] \o <<CloseBrace>>

\* json.load succeeds only on a complete document
WellFormed(chunks) ==
    /\ Len(chunks) >= 2
    /\ chunks[1] = OpenBrace
    /\ chunks[Len(chunks)] = CloseBrace

Parse(chunks) ==
    LET body == SubSeq(chunks, 2, Len(chunks) - 1)
        keys == {body[j][1] : j \in 1..Len(body)}
    IN  [k \in keys |-> body[CHOOSE j \in 1..Len(body) : body[j][1] = k][2]]

\* ------------------------------------------------------------------ state
VARIABLES
    pc,              \* position of the process
    exit_status,     \* -1 while running; the process's exit status after
    now,             \* time.time()
    formsFileExists, \* FORMS_FILE exists
    formsFile,       \* FORMS_FILE contents: the registry
    tokenFileExists, \* TOKEN_FILE exists
    tokenFile,       \* TOKEN_FILE contents: chunks
    forms,           \* _poll: forms
    tokens,          \* _poll: tokens
    new,             \* _refresh_tokens: new (_device_code_auth: body), as
                     \* handed to _save_tokens
    notified,        \* _poll: notified
    bearer,          \* client.headers["Authorization"]
    i,               \* index of the for loop over forms
    resp,            \* _check_form: the answer to the last client.get
    is_open,         \* _poll: is_open of the last _check_form
    detail,          \* _poll: detail of the last _check_form
    tick,            \* number of the current iteration of the while loop
    issued,          \* authority: number of access tokens issued so far
    \* observations of the run
    persisted,       \* the last token dict completely written to TOKEN_FILE
    notifyCalls,     \* per form_id, the number of _notify invocations
    probes,          \* indexes of forms probed in this tick, in order
    everAvailable,   \* form_ids some probe of which returned (True, "OPEN")
    resolvedAs,      \* per form_id: "PENDING", "OPEN" or "EXHAUSTED"
    ensureCalls,     \* _ensure_fresh calls in this tick
    refreshCalls,    \* token endpoint calls in this tick
    lastRefresh,     \* outcome of the last token endpoint call
    interval,        \* _device_code_auth: interval
    authPolls,       \* _device_code_auth: token endpoint polls made
    lastAuth         \* _device_code_auth: the answer to the last poll

vars == <<pc, exit_status, now, formsFileExists, formsFile, tokenFileExists,
          tokenFile, forms, tokens, new, notified, bearer, i, resp, is_open, detail,
          tick, issued, persisted, notifyCalls, probes, everAvailable,
          resolvedAs, ensureCalls, refreshCalls, lastRefresh, interval,
          authPolls, lastAuth>>

authVars == <<interval, authPolls, lastAuth>>
fileVars == <<formsFileExists, formsFile>>
obsVars == <<notifyCalls, probes, everAvailable, resolvedAs>>

\* a process at its start: no local is set and nothing has been observed
ProcessStart ==
    /\ exit_status = -1
    /\ forms = <<>>
    /\ tokens = NoTokens
    /\ new = NoTokens
    /\ notified = {}
    /\ bearer = 0
    /\ i = 0
    /\ resp = NoResponse
    /\ is_open = FALSE
    /\ detail = ""
    /\ tick = 0
    /\ notifyCalls = [f \in FormIds |-> 0]
    /\ probes = <<>>
    /\ everAvailable = {}
    /\ resolvedAs = [f \in FormIds |-> "PENDING"]
    /\ ensureCalls = 0
    /\ refreshCalls = 0
    /\ lastRefresh = "none"
    /\ interval = 0
    /\ authPolls = 0
    /\ lastAuth = "none"

\* the token file as an earlier "auth" left it, if there was one
TokenFileInit ==
    /\ tokenFileExists \in BOOLEAN
    /\ \E e \in InitialExpiresIn :
          persisted = (IF tokenFileExists
                       THEN TokenDict(e, 1, 1, 0, TENANT_COMMON) ELSE NoTokens)
    /\ tokenFile = (IF tokenFileExists THEN Serialize(persisted) ELSE <<>>)

\* the command "poll" is started
Init ==
    /\ pc = "start"
    /\ now = 0
    /\ formsFileExists \in BOOLEAN
    /\ formsFile \in (IF formsFileExists THEN Registries ELSE {<<>>})
    /\ TokenFileInit
    /\ issued = 1
    /\ ProcessStart

\* ------------------------------------------------------------ the process
\* sys.exit(1)
SysExit ==
    /\ pc' = "exit"
    /\ exit_status' = 1

\* an exception nobody catches: traceback, exit status 1
Uncaught ==
    /\ pc' = "crash"
    /\ exit_status' = 1

\* a _load_tokens whose except clause does not catch the missing file
TokenFileNotFound_Uncaught == FALSE

\* _load_tokens: open(TOKEN_FILE) raises FileNotFoundError
TokenFileNotFound == ~tokenFileExists

\* _poll, up to the while loop: _load_forms and _load_tokens
PollStart ==
    /\ pc = "start"
    /\ IF ~formsFileExists
       THEN /\ SysExit
            /\ UNCHANGED <<forms, tokens, tick>>
       ELSE /\ forms' = formsFile
            /\ IF TokenFileNotFound
               THEN /\ SysExit
                    /\ UNCHANGED <<tokens, tick>>
               ELSE IF ~WellFormed(tokenFile)
               THEN /\ Uncaught
                    /\ UNCHANGED <<tokens, tick>>
               ELSE /\ tokens' = Parse(tokenFile)
                    /\ tick' = 1
                    /\ pc' = "tick"
                    /\ UNCHANGED exit_status
    /\ UNCHANGED <<now, fileVars, authVars, tokenFileExists, tokenFile, new, notified,
                   bearer, i, resp, is_open, detail, issued, persisted, obsVars,
                   ensureCalls, refreshCalls, lastRefresh>>

\* _ensure_fresh: the test that sends it to _refresh_tokens
NeedsRefresh(t, time) ==
    LET obtained   == Get(t, "_obtained_at", 0)
        expires_in == Get(t, "expires_in", 0)
    IN  time > obtained + expires_in - SAFETY_MARGIN

\* a refresh that goes to another tenant than the stored one
RefreshTenant_Other(t) == TENANT_COMMON + 1

\* _refresh_tokens: the tenant of the token URL and of the new token set
RefreshTenant(t) == Get(t, "_tenant", TENANT_COMMON)

\* what the token endpoint may answer to a refresh_token grant
RefreshResponses ==
    {[kind |-> "http", status |-> 200, expires_in |-> e] : e \in IssuedExpiresIn}
    \cup {[kind |-> "http", status |-> 400, expires_in |-> 0],
          [kind |-> "neterror", status |-> 0, expires_in |-> 0]}

\* a refresh that does not look at the status
RefreshRejected_Ignored(r) == FALSE

\* _refresh_tokens: the test that ends the run
RefreshRejected(r) == r.status # 200

\* what the authority answered, whatever the program makes of it
Answer(r) ==
    IF r.kind = "neterror" THEN "neterror"
    ELSE IF r.status = 200 THEN "ok" ELSE "rejected"

\* _ensure_fresh when the token is fresh, and line 228 after it
EnsureFreshKeep ==
    /\ pc = "tick"
    /\ ~NeedsRefresh(tokens, now)
    /\ ensureCalls' = ensureCalls + 1
    /\ bearer' = tokens["access_token"]
    /\ i' = 1
    /\ pc' = "for"
    /\ UNCHANGED <<exit_status, now, fileVars, authVars, tokenFileExists, tokenFile,
                   forms, tokens, new, notified, resp, is_open, detail, tick,
                   issued, persisted, obsVars, refreshCalls, lastRefresh>>

\* _ensure_fresh when the token is stale: _refresh_tokens up to _save_tokens
EnsureFreshRefresh ==
    /\ pc = "tick"
    /\ NeedsRefresh(tokens, now)
    /\ ensureCalls' = ensureCalls + 1
    /\ refreshCalls' = refreshCalls + 1
    /\ \E r \in RefreshResponses, d \in Durations :
          /\ now' = now + d
          /\ lastRefresh' = Answer(r)
          /\ IF r.kind = "neterror"
             THEN /\ Uncaught
                  /\ UNCHANGED <<new, issued>>
             ELSE IF RefreshRejected(r)
             THEN /\ SysExit
                  /\ UNCHANGED <<new, issued>>
             ELSE /\ new' = TokenDict(r.expires_in, issued + 1, issued + 1, now',
                                      RefreshTenant(tokens))
                  /\ issued' = issued + 1
                  /\ pc' = "save_open"
                  /\ UNCHANGED exit_status
    /\ UNCHANGED <<fileVars, authVars, tokenFileExists, tokenFile, forms, tokens,
                   notified, bearer, i, resp, is_open, detail, tick, persisted,
                   obsVars>>

\* _save_tokens, open(TOKEN_FILE, "w"): the file is created or truncated
SaveOpen ==
    /\ pc \in {"save_open", "auth_save_open"}
    /\ tokenFileExists' = TRUE
    /\ tokenFile' = <<>>
    /\ pc' = (IF pc = "save_open" THEN "save_dump" ELSE "auth_save_dump")
    /\ UNCHANGED <<exit_status, now, fileVars, authVars, forms, tokens, new, notified,
                   bearer, i, resp, is_open, detail, tick, issued, persisted,
                   obsVars, ensureCalls, refreshCalls, lastRefresh>>

\* _save_tokens, json.dump: some of the chunks have reached the file
SaveDump ==
    /\ pc \in {"save_dump", "auth_save_dump"}
    /\ \E k \in 0..(Len(Serialize(new)) - 1) :
          tokenFile' = SubSeq(Serialize(new), 1, k)
    /\ pc' = (IF pc = "save_dump" THEN "save_close" ELSE "auth_save_close")
    /\ UNCHANGED <<exit_status, now, fileVars, authVars, tokenFileExists, forms, tokens,
                   new, notified, bearer, i, resp, is_open, detail, tick, issued,
                   persisted, obsVars, ensureCalls, refreshCalls, lastRefresh>>

\* an _ensure_fresh that saves the new token set and returns the old one
SaveClose_ReturnsOld ==
    /\ pc = "save_close"
    /\ tokenFile' = Serialize(new)
    /\ persisted' = new
    /\ bearer' = tokens["access_token"]
    /\ i' = 1
    /\ pc' = "for"
    /\ UNCHANGED <<exit_status, now, fileVars, authVars, tokenFileExists, forms, new,
                   tokens, notified, resp, is_open, detail, tick, issued,
                   obsVars, ensureCalls, refreshCalls, lastRefresh>>

\* _save_tokens, the end of the with block (flush and close) and chmod; then
\* the returns of _refresh_tokens and _ensure_fresh, and line 228
SaveClose ==
    /\ pc = "save_close"
    /\ tokenFile' = Serialize(new)
    /\ persisted' = new
    /\ tokens' = new
    /\ bearer' = new["access_token"]
    /\ i' = 1
    /\ pc' = "for"
    /\ UNCHANGED <<exit_status, now, fileVars, authVars, tokenFileExists, forms, new,
                   notified, resp, is_open, detail, tick, issued, obsVars,
                   ensureCalls, refreshCalls, lastRefresh>>

\* what the status endpoint may answer; code "none": no error code in the body
ProbeResponses ==
    {[kind |-> "timeout",  status |-> 0,   code |-> "none"],
     [kind |-> "neterror", status |-> 0,   code |-> "none"],
     [kind |-> "http",     status |-> 200, code |-> "none"],
     [kind |-> "http",     status |-> 403, code |-> "5000"],
     [kind |-> "http",     status |-> 403, code |-> "5001"],
     [kind |-> "http",     status |-> 403, code |-> "5002"],
     [kind |-> "http",     status |-> 403, code |-> "none"],
     [kind |-> "nonjson",  status |-> 500, code |-> "none"]}

\* a _check_form that takes every code but 5000 for "already submitted"
_check_form_UnknownIsSubmitted(r) ==
    IF r.kind = "timeout" THEN <<FALSE, "timeout">>
    ELSE IF r.kind = "neterror" THEN <<FALSE, "error: e">>
    ELSE IF r.status = 200 THEN <<TRUE, "OPEN">>
    ELSE IF r.kind = "nonjson" THEN <<FALSE, "error: e">>
    ELSE IF r.code = "5000" THEN <<FALSE, "closed">>
    ELSE <<FALSE, "already submitted">>

\* _check_form: <<is_open, detail>> for a response
_check_form(r) ==
    IF r.kind = "timeout" THEN <<FALSE, "timeout">>
    ELSE IF r.kind = "neterror" THEN <<FALSE, "error: e">>
    ELSE IF r.status = 200 THEN <<TRUE, "OPEN">>
    ELSE IF r.kind = "nonjson" THEN <<FALSE, "error: e">>
    ELSE LET code == IF r.code = "none" THEN "?" ELSE r.code
         IN  IF code = "5000" THEN <<FALSE, "closed">>
             ELSE IF code = "5001" THEN <<FALSE, "already submitted">>
             ELSE <<FALSE, "error code: message">>

\* _notify either returns (whether or not the alert was delivered) or raises
\* (the alert program is missing)
NotifyOutcomes == {"delivered", "undelivered", "raises"}

\* a loop that lacks the guard on notified
InNotified_NoGuard(fid) == FALSE

\* the for loop: "if fid in notified: continue"
InNotified(fid) == fid \in notified

\* a loop that lacks the elif branch
AlreadySubmitted_Never(d) == FALSE

\* a loop whose elif branch takes every detail but "closed"
AlreadySubmitted_NotClosed(d) == d # "closed"

\* the for loop: "elif detail == 'already submitted'"
AlreadySubmitted(d) == d = "already submitted"

\* a count that is one short
RemainingForms_OneShort == Len(forms) - Cardinality(notified) - 1

\* after the for loop: remaining
RemainingForms == Len(forms) - Cardinality(notified)

\* a _check_form that drops the Authorization header
CheckFormFrame_DropsHeader ==
    /\ bearer' = 0
    /\ UNCHANGED <<fileVars, authVars, tokenFileExists, tokenFile, forms, tokens, new,
                   tick, issued, persisted, ensureCalls, refreshCalls,
                   lastRefresh>>

\* _check_form and the loop body around it: what they leave as it was
CheckFormFrame ==
    UNCHANGED <<fileVars, authVars, tokenFileExists, tokenFile, forms, tokens, new,
                bearer, tick, issued, persisted, ensureCalls, refreshCalls,
                lastRefresh>>

\* a loop whose "remaining" block is inside the for loop
ForExhausted_Early == i > 1

\* "for form in forms" has no form left
ForExhausted == i > Len(forms)

\* the for loop: a form whose form_id is in notified is passed over
ForSkip ==
    /\ pc = "for"
    /\ i <= Len(forms)
    /\ InNotified(forms[i].form_id)
    /\ i' = i + 1
    /\ UNCHANGED <<pc, exit_status, now, fileVars, authVars, tokenFileExists, tokenFile,
                   forms, tokens, new, notified, bearer, resp, is_open, detail,
                   tick, issued, persisted, obsVars, ensureCalls,
                   refreshCalls, lastRefresh>>

\* the for loop: one form is probed (the answer is one of R, after one of
\* the durations D) and the outcome acted on
ForProbeIn(R, D) ==
    /\ pc = "for"
    /\ i <= Len(forms)
    /\ ~InNotified(forms[i].form_id)
    /\ \E r \in R, d \in D, sink \in NotifyOutcomes :
          LET fid == forms[i].form_id
              res == _check_form(r)
          IN  /\ now' = now + d
              /\ resp' = r
              /\ is_open' = res[1]
              /\ detail' = res[2]
              /\ probes' = Append(probes, i)
              /\ IF res[1]
                 THEN /\ notifyCalls' = [notifyCalls EXCEPT ![fid] = @ + 1]
                      /\ everAvailable' = everAvailable \cup {fid}
                      /\ IF sink = "raises"
                         THEN /\ Uncaught
                              /\ UNCHANGED <<notified, resolvedAs, i>>
                         ELSE /\ notified' = notified \cup {fid}
                              /\ resolvedAs' = [resolvedAs EXCEPT ![fid] = "OPEN"]
                              /\ i' = i + 1
                              /\ UNCHANGED <<pc, exit_status>>
                 ELSE /\ sink = "delivered"
                      /\ IF AlreadySubmitted(res[2])
                         THEN /\ notified' = notified \cup {fid}
                              /\ resolvedAs' = [resolvedAs EXCEPT ![fid] = "EXHAUSTED"]
                         ELSE UNCHANGED <<notified, resolvedAs>>
                      /\ i' = i + 1
                      /\ UNCHANGED <<pc, exit_status, notifyCalls, everAvailable>>
    /\ CheckFormFrame

\* the for loop, with any answer of the status endpoint
ForProbe == ForProbeIn(ProbeResponses, Durations)

\* after the for loop: remaining, and the break or the way to time.sleep
Remaining ==
    /\ pc = "for"
    /\ ForExhausted
    /\ LET remaining == RemainingForms
       IN  IF remaining = 0
           THEN /\ pc' = "done"
                /\ exit_status' = 0
           ELSE /\ pc' = "sleep"
                /\ UNCHANGED exit_status
    /\ UNCHANGED <<now, fileVars, authVars, tokenFileExists, tokenFile, forms, tokens,
                   new, notified, bearer, i, resp, is_open, detail, tick, issued,
                   persisted, obsVars, ensureCalls, refreshCalls, lastRefresh>>

\* a loop that calls _ensure_fresh before the while loop only
Sleep_PastEnsureFresh ==
    /\ pc = "sleep"
    /\ tick < MaxTicks
    /\ now' = now + DEFAULT_INTERVAL
    /\ tick' = tick + 1
    /\ probes' = <<>>
    /\ ensureCalls' = 0
    /\ refreshCalls' = 0
    /\ i' = 1
    /\ pc' = "for"
    /\ UNCHANGED <<exit_status, fileVars, authVars, tokenFileExists, tokenFile, forms,
                   tokens, new, notified, bearer, resp, is_open, detail, issued,
                   persisted, notifyCalls, everAvailable, resolvedAs,
                   lastRefresh>>

\* time.sleep(interval), and back to the top of the while loop
Sleep ==
    /\ pc = "sleep"
    /\ tick < MaxTicks
    /\ now' = now + DEFAULT_INTERVAL
    /\ tick' = tick + 1
    /\ probes' = <<>>
    /\ ensureCalls' = 0
    /\ refreshCalls' = 0
    /\ pc' = "tick"
    /\ UNCHANGED <<exit_status, fileVars, authVars, tokenFileExists, tokenFile, forms,
                   tokens, new, notified, bearer, i, resp, is_open, detail, issued,
                   persisted, notifyCalls, everAvailable, resolvedAs,
                   lastRefresh>>

\* the process is stopped inside _save_tokens (no handler is installed);
\* stopped anywhere else, it leaves the files as they are
KilledInSave ==
    /\ pc \in {"save_dump", "save_close", "auth_save_dump", "auth_save_close"}
    /\ pc' = "killed"
    /\ exit_status' = 130
    /\ UNCHANGED <<now, fileVars, authVars, tokenFileExists, tokenFile, forms, tokens,
                   new, notified, bearer, i, resp, is_open, detail, tick, issued,
                   persisted, obsVars, ensureCalls, refreshCalls, lastRefresh>>

Next ==
    \/ PollStart
    \/ EnsureFreshKeep
    \/ EnsureFreshRefresh
    \/ SaveOpen
    \/ SaveDump
    \/ SaveClose
    \/ ForSkip
    \/ ForProbe
    \/ Remaining
    \/ Sleep
    \/ KilledInSave

Spec == Init /\ [][Next]_vars

\* ------------------------------------------------- the command "auth"
\* what the device code endpoint may answer; interval -1: none in the body
DeviceCodeResponses ==
    {[ok |-> TRUE, interval |-> -1], [ok |-> TRUE, interval |-> 1],
     [ok |-> FALSE, interval |-> -1]}

\* what the token endpoint may answer to a device_code grant
AuthResponses ==
    {[kind |-> "http", status |-> 200, error |-> "none", expires_in |-> e] :
        e \in InitialExpiresIn}
    \cup {[kind |-> "http", status |-> 400, error |-> err, expires_in |-> 0] :
            err \in {"authorization_pending", "expired_token", "access_denied"}}
    \cup {[kind |-> "neterror", status |-> 0, error |-> "none", expires_in |-> 0]}

\* what the authority answered to a poll, whatever the program makes of it
AuthAnswer(r) ==
    IF r.kind = "neterror" THEN "neterror"
    ELSE IF r.status = 200 THEN "ok" ELSE r.error

\* a device flow that polls on after every error but expired_token
AuthorizationPending_NotExpired(error) == error # "expired_token"

\* _device_code_auth: "if error == 'authorization_pending': continue"
AuthorizationPending(error) == error = "authorization_pending"

\* the command "auth" is started
InitAuth ==
    /\ pc = "auth"
    /\ now = 0
    /\ formsFileExists \in BOOLEAN
    /\ formsFile \in (IF formsFileExists THEN {AddUrls(<<>>, <<"u1">>)} ELSE {<<>>})
    /\ TokenFileInit
    /\ issued = (IF tokenFileExists THEN 1 ELSE 0)
    /\ ProcessStart

\* _device_code_auth up to the while loop: the device code request
AuthBegin ==
    /\ pc = "auth"
    /\ \E r \in DeviceCodeResponses, d \in Durations :
          /\ now' = now + d
          /\ IF ~r.ok
             THEN /\ Uncaught
                  /\ UNCHANGED interval
             ELSE /\ interval' = (IF r.interval = -1 THEN DEVICE_INTERVAL
                                  ELSE r.interval)
                  /\ pc' = "auth_wait"
                  /\ UNCHANGED exit_status
    /\ UNCHANGED <<fileVars, tokenFileExists, tokenFile, forms, tokens, new,
                   notified, bearer, i, resp, is_open, detail, tick, issued,
                   persisted, obsVars, ensureCalls, refreshCalls, lastRefresh,
                   authPolls, lastAuth>>

\* _device_code_auth, one turn of the while loop: sleep, poll, classify
AuthPoll ==
    /\ pc = "auth_wait"
    /\ authPolls < MaxAuthPolls
    /\ authPolls' = authPolls + 1
    /\ \E r \in AuthResponses, d \in Durations :
          /\ now' = now + interval + d
          /\ lastAuth' = AuthAnswer(r)
          /\ IF r.kind = "neterror"
             THEN /\ Uncaught
                  /\ UNCHANGED <<new, issued>>
             ELSE IF r.status = 200
             THEN /\ new' = TokenDict(r.expires_in, issued + 1, issued + 1, now',
                                      TENANT_COMMON)
                  /\ issued' = issued + 1
                  /\ pc' = "auth_save_open"
                  /\ UNCHANGED exit_status
             ELSE IF AuthorizationPending(r.error)
             THEN UNCHANGED <<pc, exit_status, new, issued>>
             ELSE /\ SysExit
                  /\ UNCHANGED <<new, issued>>
    /\ UNCHANGED <<fileVars, tokenFileExists, tokenFile, forms, tokens,
                   notified, bearer, i, resp, is_open, detail, tick,
                   persisted, obsVars, ensureCalls, refreshCalls, lastRefresh,
                   interval>>

\* _save_tokens as called by _device_code_auth, the end of the with block
\* and chmod; then the return of _device_code_auth and of main
AuthSaveClose ==
    /\ pc = "auth_save_close"
    /\ tokenFile' = Serialize(new)
    /\ persisted' = new
    /\ pc' = "authenticated"
    /\ exit_status' = 0
    /\ UNCHANGED <<now, fileVars, authVars, tokenFileExists, forms, tokens, new,
                   notified, bearer, i, resp, is_open, detail, tick, issued,
                   obsVars, ensureCalls, refreshCalls, lastRefresh>>

NextAuth ==
    \/ AuthBegin
    \/ AuthPoll
    \/ SaveOpen
    \/ SaveDump
    \/ AuthSaveClose
    \/ KilledInSave

SpecAuth == InitAuth /\ [][NextAuth]_vars

\* ------------------------------------------ probes that take their time
\* a probe is answered at once or runs into the client's timeout
ProbeDurations == {0, PROBE_TIMEOUT}

\* the command "poll" is started on a registry of at most two forms
InitTimed ==
    /\ pc = "start"
    /\ now = 0
    /\ formsFileExists \in BOOLEAN
    /\ formsFile \in (IF formsFileExists
                      THEN {r \in Registries : Len(r) <= 2} ELSE {<<>>})
    /\ TokenFileInit
    /\ issued = 1
    /\ ProcessStart

\* the for loop, with any answer of the status endpoint after any wait
ForProbeTimed == ForProbeIn(ProbeResponses, ProbeDurations)

NextTimed ==
    \/ PollStart
    \/ EnsureFreshKeep
    \/ EnsureFreshRefresh
    \/ SaveOpen
    \/ SaveDump
    \/ SaveClose
    \/ ForSkip
    \/ ForProbeTimed
    \/ Remaining
    \/ Sleep
    \/ KilledInSave

SpecTimed == InitTimed /\ [][NextTimed]_vars

\* ------------------------------------- the scenario of three resources
\* the answers of the status endpoint in the scenario, by tick and form:
\* tick 1 all not open yet (5000); tick 2 A not open yet, B open (200),
\* C already submitted (5001); tick 3 A open. Nothing is said of any
\* other probe, so any answer may come to it.
ScenarioResponses(t, fid) ==
    IF t = 1 \/ (t = 2 /\ fid = "A")
    THEN {[kind |-> "http", status |-> 403, code |-> "5000"]}
    ELSE IF (t = 2 /\ fid = "B") \/ (t = 3 /\ fid = "A")
    THEN {[kind |-> "http", status |-> 200, code |-> "none"]}
    ELSE IF t = 2 /\ fid = "C"
    THEN {[kind |-> "http", status |-> 403, code |-> "5001"]}
    ELSE ProbeResponses

\* the command "poll" is started on the registry [A, B, C], authenticated
InitScenario ==
    /\ pc = "start"
    /\ now = 0
    /\ formsFileExists = TRUE
    /\ formsFile = AddUrls(<<>>, <<"u1", "u3", "u4">>)
    /\ TokenFileInit
    /\ tokenFileExists
    /\ issued = 1
    /\ ProcessStart

\* the for loop, with the answers of the scenario
ForProbeScenario ==
    ForProbeIn(ScenarioResponses(tick, forms[i].form_id), Durations)

NextScenario ==
    \/ PollStart
    \/ EnsureFreshKeep
    \/ EnsureFreshRefresh
    \/ SaveOpen
    \/ SaveDump
    \/ SaveClose
    \/ ForSkip
    \/ ForProbeScenario
    \/ Remaining
    \/ Sleep
    \/ KilledInSave

\* the process is not suspended for ever: a step it can take is taken
SpecScenario == InitScenario /\ [][NextScenario]_vars /\ WF_vars(NextScenario)


\* ================================================================ claims
\* a step of the for loop in which _check_form was called
ProbeStep == probes' = Append(probes, i)

\* the form_ids of the registry
Registered == {forms[j].form_id : j \in 1..Len(forms)}

\* C1: over the whole run, _notify has been invoked exactly once for a
\* form_id some probe of which returned Available and never for any other,
\* and no probe is made of a form_id that is in the resolved set.
C1_OneNotificationPerAvailable ==
    /\ [](\A f \in FormIds :
            notifyCalls[f] = (IF f \in everAvailable THEN 1 ELSE 0))
    /\ [][ProbeStep => forms[i].form_id \notin notified]_vars

\* C1 witness: a later tick passes over a form that was notified once in an
\* earlier tick, while another form is still probed.
C1_Witness ==
    /\ pc = "for"
    /\ tick >= 2
    /\ i = 3
    /\ probes = <<2>>
    /\ notifyCalls[forms[1].form_id] = 1
    /\ notifyCalls[forms[2].form_id] = 0

\* C2: when _poll has left the loop by its break, every form of the registry
\* has had Available or AlreadyConsumed recorded for its form_id.
C2_NoExitWhilePending ==
    pc = "done" =>
        \A j \in 1..Len(forms) :
            /\ forms[j].form_id \in notified
            /\ resolvedAs[forms[j].form_id] \in {"OPEN", "EXHAUSTED"}

\* C2 witness: the loop has exited with one form open and one exhausted.
C2_Witness ==
    /\ pc = "done"
    /\ \E f, g \in Registered :
          resolvedAs[f] = "OPEN" /\ resolvedAs[g] = "EXHAUSTED"

\* C3 as claimed: if every form's resource is OPEN or EXHAUSTED at the end of
\* a tick, the loop exits and does not go to sleep.
C3_ExitsWhenAllTerminal ==
    pc = "sleep" => \E f \in Registered : f \notin notified


\* C4 as claimed: _ensure_fresh returns its input and calls no token endpoint
\* exactly when now < obtained_at + expires_in - 300.
C4_KeepsIffBeforeMargin ==
    [][(pc = "tick" /\ pc' # "tick") =>
          ((refreshCalls' = refreshCalls /\ tokens' = tokens /\ pc' = "for")
             <=> now < tokens["_obtained_at"] + tokens["expires_in"] - SAFETY_MARGIN)]_vars

\* C5: a probe classified AlreadyConsumed puts the form_id in the resolved
\* set in that step, as EXHAUSTED, without a notification; an EXHAUSTED
\* form_id has never had a notification and is never probed.
C5_AlreadyConsumedExhausts ==
    /\ [](\A f \in FormIds :
            resolvedAs[f] = "EXHAUSTED" => f \in notified /\ notifyCalls[f] = 0)
    /\ [][ProbeStep =>
            /\ resolvedAs[forms[i].form_id] # "EXHAUSTED"
            /\ (~is_open' /\ detail' = "already submitted") =>
                  /\ forms[i].form_id \in notified'
                  /\ resolvedAs'[forms[i].form_id] = "EXHAUSTED"
                  /\ notifyCalls' = notifyCalls]_vars

\* C5 witness: a later tick passes over a form that was found exhausted.
C5_Witness ==
    /\ pc = "for"
    /\ tick >= 2
    /\ i = 2
    /\ probes = <<>>
    /\ resolvedAs[forms[1].form_id] = "EXHAUSTED"
    /\ Len(forms) >= 2

\* C6: when the authority rejects the refresh token, the run ends by
\* sys.exit(1) in that step: the token file, the notifications and the probes
\* are as they were, and no later step changes them or calls the token
\* endpoint again.
C6_RejectedRefreshAborts ==
    /\ [](lastRefresh = "rejected" => pc = "exit" /\ exit_status = 1)
    /\ [][lastRefresh' = "rejected" =>
            /\ UNCHANGED <<tokenFileExists, tokenFile, persisted, notifyCalls,
                           probes, notified>>
            /\ lastRefresh = "rejected" => refreshCalls' = refreshCalls]_vars

\* C6 witness: the refresh is rejected in a later tick of a run that has
\* already resolved a form.
C6_Witness ==
    /\ lastRefresh = "rejected"
    /\ tick >= 2
    /\ notified # {}
    /\ Len(forms) >= 2

TransientDetails == {"timeout", "error: e"}

\* C7: a Transient probe leaves the resolved set and the notifications as they
\* were and the loop goes on; every form still pending at the end of a tick
\* was probed in that tick; the loop does not exit while a form is pending.
C7_TransientStaysPending ==
    /\ [][(ProbeStep /\ detail' \in TransientDetails) =>
            /\ notified' = notified
            /\ notifyCalls' = notifyCalls
            /\ pc' = "for"
            /\ exit_status' = -1]_vars
    /\ []((pc \in {"sleep", "done"} \/ (pc = "for" /\ i > Len(forms))) =>
            \A j \in 1..Len(forms) :
                forms[j].form_id \notin notified =>
                    \E k \in 1..Len(probes) : probes[k] = j)
    /\ [](pc = "done" => Registered \subseteq notified)

\* C7 witness: in the third tick a form times out again and stays pending,
\* after another form was resolved in an earlier tick.
C7_Witness ==
    /\ pc = "sleep"
    /\ tick = 3
    /\ detail = "timeout"
    /\ probes = <<2>>
    /\ forms[1].form_id \in notified
    /\ forms[2].form_id \notin notified

\* C8: the resolved set only grows, and a form_id that is OPEN or EXHAUSTED
\* keeps that state.
C8_Monotonic ==
    /\ [](\A f \in FormIds : f \in notified <=> resolvedAs[f] # "PENDING")
    /\ [][/\ notified \subseteq notified'
          /\ \A f \in notified : resolvedAs'[f] = resolvedAs[f]]_vars

\* C8 witness: in a later tick one form is OPEN, one EXHAUSTED, one PENDING.
C8_Witness ==
    /\ tick >= 2
    /\ pc = "sleep"
    /\ \E f, g, h \in Registered :
          /\ resolvedAs[f] = "OPEN"
          /\ resolvedAs[g] = "EXHAUSTED"
          /\ resolvedAs[h] = "PENDING"

\* C9: in every tick _ensure_fresh is called once, before the first probe,
\* and the token endpoint is called at most once.
C9_EnsureFreshOncePerTick ==
    /\ ensureCalls <= 1
    /\ refreshCalls <= ensureCalls
    /\ probes # <<>> => ensureCalls = 1
    /\ pc \in {"for", "sleep", "done"} => ensureCalls = 1

\* C9 witness: a later tick has refreshed once and probed three forms.
C9_Witness ==
    /\ tick >= 2
    /\ pc = "sleep"
    /\ refreshCalls = 1
    /\ Len(probes) = 3

\* C10 as claimed: the token file always holds the whole of the last token
\* set saved, or the whole of the one being saved.
C10_SaveAllOrNothing ==
    tokenFileExists =>
        \/ tokenFile = Serialize(persisted)
        \/ pc \in {"save_dump", "save_close"} /\ tokenFile = Serialize(new)


\* C12: while no token set has been persisted, the poll run is at its start
\* or has ended by sys.exit(1): no tick, no token endpoint call, no probe, no
\* notification and no step of the device flow has happened.
C12_NotAuthenticatedAborts ==
    ~tokenFileExists =>
        /\ pc \in {"start", "exit"}
        /\ pc = "exit" => exit_status = 1
        /\ tick = 0 /\ ensureCalls = 0 /\ refreshCalls = 0
        /\ lastRefresh = "none" /\ issued = 1
        /\ probes = <<>> /\ resp = NoResponse
        /\ \A f \in FormIds : notifyCalls[f] = 0
        /\ authPolls = 0 /\ lastAuth = "none"

\* C12 witness: a poll run with a registry and no token file has ended.
C12_Witness ==
    /\ ~tokenFileExists
    /\ formsFileExists
    /\ Len(forms) >= 1
    /\ pc = "exit"

\* C15 as claimed: whatever becomes of the _notify call for an Available
\* form, the form_id is added to the resolved set and the loop goes on to the
\* next form.
C15_NotifyFailureIgnored ==
    [][(ProbeStep /\ is_open') =>
          /\ forms[i].form_id \in notified'
          /\ pc' = "for"
          /\ i' = i + 1
          /\ exit_status' = -1]_vars

\* an answer that is no success and carries neither code 5000 nor code 5001
OtherResponse(r) ==
    /\ r.kind \in {"http", "nonjson"}
    /\ r.status # 200
    /\ r.code \notin {"5000", "5001"}

\* C16: a probe answered with an unknown code, or with none, leaves the
\* resolved set and the notifications as they were and the loop goes on;
\* the form is probed in every tick that is completed while it is pending,
\* and the loop does not exit while it is.
C16_OtherStaysPending ==
    /\ [][(ProbeStep /\ OtherResponse(resp')) =>
            /\ ~is_open'
            /\ notified' = notified
            /\ resolvedAs' = resolvedAs
            /\ notifyCalls' = notifyCalls
            /\ pc' = "for"
            /\ i' = i + 1
            /\ exit_status' = -1]_vars
    /\ [](\A j \in 1..Len(forms) :
            (pc \in {"sleep", "done"} /\ resolvedAs[forms[j].form_id] = "PENDING")
                => \E k \in 1..Len(probes) : probes[k] = j)
    /\ [](pc = "done" =>
            \A f \in Registered : resolvedAs[f] # "PENDING")

\* C16 witness: at the end of the third tick the second form has again been
\* answered with an unknown code and is pending; the first was resolved in an
\* earlier tick.
C16_Witness ==
    /\ pc = "sleep"
    /\ tick = 3
    /\ resp.code = "5002"
    /\ probes = <<2>>
    /\ forms[1].form_id \in notified
    /\ forms[2].form_id \notin notified

\* C17: while the for loop runs, the token file is a complete document equal
\* to the token set the loop holds, whose access_token is in the header; a
\* token set refreshed in this tick is the whole of the new one, with
\* _obtained_at the time of the refresh.
C17_HeldEqualsPersisted ==
    pc = "for" =>
        /\ tokenFileExists
        /\ WellFormed(tokenFile)
        /\ Parse(tokenFile) = tokens
        /\ persisted = tokens
        /\ bearer = tokens["access_token"]
        /\ refreshCalls = 1 =>
              /\ tokens = new
              /\ probes = <<>> => tokens["_obtained_at"] = now

\* C17 witness: a later tick has refreshed and gone on to probe.
C17_Witness ==
    /\ pc = "for"
    /\ tick >= 2
    /\ refreshCalls = 1
    /\ lastRefresh = "ok"
    /\ Len(probes) >= 2

\* C18: a probe, whatever its outcome, leaves the token set held, the header,
\* the token file and the registry as they were; within a run the token state
\* changes only in _ensure_fresh (with _refresh_tokens and _save_tokens) and
\* the resolved set only in a probe step of the loop.
C18_ProbeReadOnly ==
    /\ [][ProbeStep =>
            UNCHANGED <<tokens, bearer, new, tokenFileExists, tokenFile,
                        persisted, forms, formsFileExists, formsFile>>]_vars
    /\ [][tick >= 1 =>
            /\ (tokens' # tokens \/ tokenFile' # tokenFile \/ bearer' # bearer)
                  => pc \in {"tick", "save_open", "save_dump", "save_close"}
            /\ notified' # notified => ProbeStep]_vars

\* C18 witness: three probes of a tick have had three kinds of outcome.
C18_Witness ==
    /\ pc = "sleep"
    /\ probes = <<1, 2, 3>>
    /\ resolvedAs[forms[1].form_id] = "OPEN"
    /\ resolvedAs[forms[2].form_id] = "EXHAUSTED"
    /\ resp.kind = "timeout"

\* the resolved set as it was when the current tick began: a form_id probed
\* in this tick was not in it
StartNotified == notified \ {forms[probes[k]].form_id : k \in 1..Len(probes)}

\* the indexes of the forms that were pending when the tick began, in order
PendingAtStart ==
    SelectSeq([j \in 1..Len(forms) |-> j],
              LAMBDA j : forms[j].form_id \notin StartNotified)

\* C19 as claimed: when the sleep-or-exit decision has been taken, the probes
\* of the tick are the descriptors whose resource was pending at the start of
\* the tick, each once, in registry order.
C19_EachPendingProbedOnce ==
    pc \in {"sleep", "done"} => probes = PendingAtStart

\* C19 as amended: the probes of a tick are in registry order, none twice,
\* all of descriptors pending at the start of the tick; a descriptor pending
\* at the start is left out only when an earlier descriptor with the same
\* form_id was probed in this tick and the form_id is now resolved.
C19_EachPendingResourceProbed ==
    pc \in {"sleep", "done"} =>
        /\ \A k \in 1..Len(probes) :
              /\ probes[k] \in 1..Len(forms)
              /\ forms[probes[k]].form_id \notin StartNotified
              /\ k > 1 => probes[k - 1] < probes[k]
        /\ \A j \in 1..Len(forms) :
              forms[j].form_id \notin StartNotified =>
                  \/ \E k \in 1..Len(probes) : probes[k] = j
                  \/ /\ forms[j].form_id \in notified
                     /\ \E k \in 1..Len(probes) :
                           /\ probes[k] < j
                           /\ forms[probes[k]].form_id = forms[j].form_id

\* C19 witness: in a later tick two pending forms were probed and a resolved
\* one passed over.
C19_Witness ==
    /\ pc = "sleep"
    /\ tick >= 2
    /\ probes = <<1, 3>>
    /\ forms[2].form_id \in StartNotified

\* C20: a refresh goes to the tenant of the persisted token set, and the
\* token set it persists carries that same tenant: the tenant that the
\* device authorization recorded.
C20_TenantPreserved ==
    /\ [](persisted # NoTokens =>
            /\ "_tenant" \in DOMAIN persisted
            /\ persisted["_tenant"] = TENANT_COMMON)
    /\ [][refreshCalls' = refreshCalls + 1 =>
            /\ "_tenant" \in DOMAIN persisted
            /\ RefreshTenant(tokens) = persisted["_tenant"]]_vars
    /\ [][persisted # NoTokens =>
            persisted'["_tenant"] = persisted["_tenant"]]_vars

\* C20 witness: the token set on file is the second one got by refresh.
C20_Witness ==
    /\ pc = "for"
    /\ issued = 3
    /\ persisted["access_token"] = 3
    /\ persisted["_tenant"] = TENANT_COMMON


\* C11: every poll of the device flow comes after a wait of interval, which
\* stays the same, and after no answer but authorization_pending; on
\* authorization_pending the flow stays in its loop; on expired_token and on
\* any other error the run ends by sys.exit(1); only a success changes the
\* token file, and the token set it persists has _obtained_at = the time of
\* the answer.
C11_DeviceFlow ==
    /\ [][authPolls' = authPolls + 1 =>
            /\ lastAuth \in {"none", "authorization_pending"}
            /\ now' >= now + interval
            /\ interval' = interval
            /\ lastAuth' = "authorization_pending" =>
                  pc' = "auth_wait" /\ exit_status' = -1
            /\ lastAuth' \in {"expired_token", "access_denied"} =>
                  pc' = "exit" /\ exit_status' = 1
            /\ lastAuth' = "ok" =>
                  pc' = "auth_save_open" /\ new'["_obtained_at"] = now']_vars
    /\ [][lastAuth' # "ok" =>
            UNCHANGED <<tokenFileExists, tokenFile, persisted>>]_vars
    /\ [](pc = "authenticated" =>
            /\ exit_status = 0
            /\ lastAuth = "ok"
            /\ WellFormed(tokenFile)
            /\ Parse(tokenFile) = new
            /\ new["_obtained_at"] = now
            /\ new["_tenant"] = TENANT_COMMON)

\* C11 witness: the flow has ended with success at its third poll.
C11_Witness ==
    /\ pc = "authenticated"
    /\ authPolls = 3
    /\ interval = DEVICE_INTERVAL


\* the run was ended from outside the probes: the refresh was rejected or
\* failed, the notification program could not be run, or the process was
\* stopped
ScenarioAborted ==
    \/ pc = "exit" /\ lastRefresh = "rejected"
    \/ pc = "crash" /\ lastRefresh = "neterror"
    \/ pc = "crash" /\ \E fid \in FormIds :
                          notifyCalls[fid] = 1 /\ fid \notin notified
    \/ pc = "killed"

\* C13: in the scenario (registry [A, B, C]; tick 1 all not open yet; tick 2
\* A not open yet, B open, C already submitted; tick 3 A open) _notify is
\* called for B in tick 2 and for A in tick 3 and at no other time, tick 3
\* probes only A, the loop sleeps after ticks 1 and 2 only, and the run ends
\* in the break at the end of tick 3 with exit status 0 and two
\* notifications, unless it was ended from outside the probes.
C13_ScenarioTrace ==
    /\ [][notifyCalls' # notifyCalls =>
            \E fid \in FormIds :
                /\ notifyCalls' = [notifyCalls EXCEPT ![fid] = 1]
                /\ notifyCalls[fid] = 0
                /\ (tick = 2 /\ fid = "B") \/ (tick = 3 /\ fid = "A")]_vars
    /\ [][ProbeStep /\ tick = 3 => forms[i].form_id = "A"]_vars
    /\ [](pc = "sleep" => tick \in {1, 2})
    /\ [](pc = "done" =>
            /\ tick = 3
            /\ exit_status = 0
            /\ probes = <<1>>
            /\ notifyCalls = [fid \in FormIds |->
                                 IF fid \in {"A", "B"} THEN 1 ELSE 0]
            /\ notified = {"A", "B", "C"})
    /\ <>(pc = "done" \/ ScenarioAborted)

\* C13 witness: the scenario has run to its end, the break of tick 3.
C13_Witness ==
    /\ pc = "done"
    /\ tick = 3
    /\ notifyCalls["A"] = 1
    /\ notifyCalls["B"] = 1
    /\ forms = AddUrls(<<>>, <<"u1", "u3", "u4">>)


\* C14: whenever _check_form is called, the Authorization header carries the
\* access token of the held token set, and that set is valid for use at that
\* moment: now < _obtained_at + expires_in - 300; probes may take up to
\* their timeout.
C14_TokenValidAtProbe ==
    [][ProbeStep =>
          /\ bearer = tokens["access_token"]
          /\ now < tokens["_obtained_at"] + tokens["expires_in"]
                     - SAFETY_MARGIN]_vars

====
